---- MODULE Spec2Model ----
(***************************************************************************)
(* Model of src/mcp_google_sheets/server.py: the credential resolution and *)
(* session construction of spreadsheet_lifespan, and the tool handlers     *)
(* that translate one invocation into remote Google Sheets / Drive calls.  *)
(* The remote services are external: every remote call either faults or    *)
(* answers with a value drawn from a small set.                            *)
(***************************************************************************)
EXTENDS Integers, Sequences, FiniteSets, TLC

(* ---------------------------------------------------------------------- *)
(* Python values                                                           *)
(* ---------------------------------------------------------------------- *)

\* Optional[T]: None is the empty tuple, a value v is <<v>>.
None == <<>>
Some(v) == <<v>>
IsNone(o) == o = <<>>
Val(o) == o[1]

\* Truthiness of an Optional[str] (`if range:`, `if folder_id:`):
\* None and the empty string are both falsy.
Truthy(o) == ~IsNone(o) /\ Val(o) # ""

(* ---------------------------------------------------------------------- *)
(* Module constants (server.py:25-29)                                      *)
(* ---------------------------------------------------------------------- *)

\* Values the environment may give SERVICE_ACCOUNT_PATH and DRIVE_FOLDER_ID.
ServiceAccountPaths == {"", "service_account.json"}
FolderIds == {"", "folder1"}

(* ---------------------------------------------------------------------- *)
(* Credentials                                                             *)
(* ---------------------------------------------------------------------- *)

NoCreds == [kind |-> "none", valid |-> FALSE, expired |-> FALSE, refresh_token |-> FALSE]

\* service_account.Credentials.from_service_account_file(...)
ServiceAccountCreds ==
    [kind |-> "service_account", valid |-> FALSE, expired |-> FALSE, refresh_token |-> FALSE]

\* An end-user OAuth token: valid = it has an access token that is not
\* expired, so a token is never both valid and expired.
OAuthToken(v, e, r) == [kind |-> "oauth", valid |-> v, expired |-> e, refresh_token |-> r]

\* Contents the token cache file may hold at startup.
CachedTokens ==
    { OAuthToken(TRUE, FALSE, TRUE),     \* usable as it is
      OAuthToken(FALSE, TRUE, TRUE),     \* expired, refreshable
      OAuthToken(FALSE, TRUE, FALSE),    \* expired, no refresh token
      OAuthToken(FALSE, FALSE, TRUE) }   \* no access token, not expired

NoFile == [kind |-> "nofile"]
Garbage == [kind |-> "garbage"]
TokenFileContents == {NoFile, Garbage} \cup [kind : {"file"}, token : CachedTokens]

\* Python truthiness of `creds` (`if not creds`): only None is falsy, the
\* credential classes define neither __bool__ nor __len__.
CredsTruthy(c) == c # NoCreds

\* creds.refresh(Request()) on success: a fresh access token.
Refreshed(c) == [c EXCEPT !.valid = TRUE, !.expired = FALSE]

\* flow.run_local_server(port=0) on success.
FlowCreds == OAuthToken(TRUE, FALSE, TRUE)

\* creds.to_json() written to TOKEN_PATH.
ToJson(c) == [kind |-> "file", token |-> c]

NoContext == [built |-> FALSE]

\* build('sheets', 'v4', credentials=creds), build('drive', 'v3', ...)
BuildService(api, version, c) == [api |-> api, version |-> version, credentials |-> c]

\* SpreadsheetContext(sheets_service, drive_service, folder_id)
SpreadsheetContext(c, folder) ==
    [built |-> TRUE,
     sheets_service |-> BuildService("sheets", "v4", c),
     drive_service |-> BuildService("drive", "v3", c),
     folder_id |-> IF folder # "" THEN Some(folder) ELSE None]

(* ---------------------------------------------------------------------- *)
(* Tool invocations                                                        *)
(* ---------------------------------------------------------------------- *)

\* Bounds of the model.
MaxCount == 2       \* largest `count` given to add_rows / add_columns
MaxStart == 1       \* largest `start_row` / `start_column`
MaxGrid == 2        \* most rows (columns) of a sheet an insert is tried on

\* No tool has been invoked yet.
Idle == [pc |-> "idle"]

\* The frame of one invocation: the handler, its arguments, its position,
\* its locals, the remote calls it has issued so far and what it returned.
Frame(tool, args, pc, locals, calls, result) ==
    [pc |-> pc, tool |-> tool, args |-> args, locals |-> locals,
     calls |-> calls, result |-> result]

\* The handler returned `value`.
Returned(tool, args, locals, calls, value) ==
    Frame(tool, args, "returned", locals, calls, Some(value))

\* A remote call raised and the exception left the handler.
Faulted(tool, args, locals, calls) ==
    Frame(tool, args, "faulted", locals, calls, None)

NoLocals == [none |-> TRUE]

\* Arguments the caller may give.
SpreadsheetIds == {"abc123", "xyz789"}
SheetArgs == {"", "Data"}
NewNames == {"Data", "Tmp"}
RangeArgs == {None, Some(""), Some("A1")}
A1Ranges == {"A1", "B2"}
CellData == <<<<1, 2>>, <<3, 4>>>>
RangesArgs == {<<>>, <<"A1">>, <<"A1", "B2">>}
Counts == 1 .. MaxCount
StartArgs == {None} \cup {Some(i) : i \in -1 .. MaxStart}
Titles == {"Budget"}

VARIABLES
    SERVICE_ACCOUNT_PATH,  \* environment: path of the service-account key
    DRIVE_FOLDER_ID,       \* environment: working folder id, "" when unset
    saFileExists,          \* file system: os.path.exists(SERVICE_ACCOUNT_PATH)
    tokenFile,             \* file system: content of TOKEN_PATH
    lpc,                   \* position of spreadsheet_lifespan
    creds,                 \* local `creds` of spreadsheet_lifespan
    trail,                 \* steps spreadsheet_lifespan has executed, in order
    ctx,                   \* the SpreadsheetContext the lifespan yields
    inv                    \* the frame of the tool invocation the host ran last

vars == <<SERVICE_ACCOUNT_PATH, DRIVE_FOLDER_ID, saFileExists, tokenFile, lpc, creds, trail, ctx, inv>>

env == <<SERVICE_ACCOUNT_PATH, DRIVE_FOLDER_ID, saFileExists>>

Init ==
    /\ SERVICE_ACCOUNT_PATH \in ServiceAccountPaths
    /\ DRIVE_FOLDER_ID \in FolderIds
    /\ saFileExists \in BOOLEAN
    /\ SERVICE_ACCOUNT_PATH = "" => ~saFileExists   \* os.path.exists("") is False
    /\ tokenFile \in TokenFileContents
    /\ lpc = "service_account"
    /\ creds = NoCreds
    /\ trail = <<>>
    /\ ctx = NoContext
    /\ inv = Idle

(* ---------------------------------------------------------------------- *)
(* spreadsheet_lifespan: credential resolution (server.py:44-78)           *)
(* ---------------------------------------------------------------------- *)

\* `if SERVICE_ACCOUNT_PATH and os.path.exists(SERVICE_ACCOUNT_PATH)`
ServiceAccountConfigured == SERVICE_ACCOUNT_PATH # "" /\ saFileExists

\* The test of line 69 used at line 62: a service-account credential, which
\* holds no access token before its first request, would not count.
EnterOAuth_unlessValid(c) == ~CredsTruthy(c) \/ ~c.valid

\* `if not creds:` the OAuth path is taken when no credential was loaded.
EnterOAuth(c) == ~CredsTruthy(c)

\* `if not creds or not creds.valid:`
NeedsNewCreds(c) == ~CredsTruthy(c) \/ ~c.valid

\* The refresh tried on any token that carries a refresh token, expired or not.
CanRefresh_unexpired(c) == CredsTruthy(c) /\ c.refresh_token

\* `if creds and creds.expired and creds.refresh_token:`
CanRefresh(c) == CredsTruthy(c) /\ c.expired /\ c.refresh_token

\* Where the OAuth path goes once the token cache has been looked at.
AfterTokenRead(c) ==
    IF NeedsNewCreds(c)
    THEN IF CanRefresh(c) THEN "refresh" ELSE "flow"
    ELSE "build"

\* Lines 47-62: the service-account attempt.  A load that raises is caught
\* (`except Exception`), creds stays None and the OAuth path follows.
LoadServiceAccount ==
    /\ lpc = "service_account"
    /\ \E loaded \in BOOLEAN :
         /\ creds' = IF ServiceAccountConfigured /\ loaded THEN ServiceAccountCreds ELSE NoCreds
         /\ trail' = IF ServiceAccountConfigured
                     THEN Append(trail, IF loaded THEN "sa_loaded" ELSE "sa_load_raised")
                     ELSE Append(trail, "sa_skipped")
         /\ lpc' = IF EnterOAuth(creds') THEN "oauth_read" ELSE "build"
    /\ UNCHANGED <<env, tokenFile, ctx, inv>>

\* Lines 63-69: read the token cache when it exists.  A file that cannot be
\* parsed raises out of the lifespan.
ReadTokenCache ==
    /\ lpc = "oauth_read"
    /\ IF tokenFile = NoFile
       THEN /\ creds' = creds
            /\ trail' = Append(trail, "oauth")
            /\ lpc' = AfterTokenRead(creds)
       ELSE IF tokenFile = Garbage
       THEN /\ creds' = creds
            /\ trail' = trail \o <<"oauth", "token_read_raised">>
            /\ lpc' = "failed"
       ELSE /\ creds' = tokenFile.token
            /\ trail' = trail \o <<"oauth", "token_read">>
            /\ lpc' = AfterTokenRead(creds')
    /\ UNCHANGED <<env, tokenFile, ctx, inv>>

\* The refresh with the save left to the interactive branch alone.
RefreshToken_unsaved ==
    /\ lpc = "refresh"
    /\ \E ok \in BOOLEAN :
         IF ok
         THEN /\ creds' = Refreshed(creds)
              /\ trail' = Append(trail, "refresh")
              /\ lpc' = "build"
         ELSE /\ creds' = creds
              /\ trail' = Append(trail, "refresh_raised")
              /\ lpc' = "failed"
    /\ UNCHANGED <<env, tokenFile, ctx, inv>>

\* Line 71: creds.refresh(Request()); a refresh that fails raises.
RefreshToken ==
    /\ lpc = "refresh"
    /\ \E ok \in BOOLEAN :
         IF ok
         THEN /\ creds' = Refreshed(creds)
              /\ trail' = Append(trail, "refresh")
              /\ lpc' = "save"
         ELSE /\ creds' = creds
              /\ trail' = Append(trail, "refresh_raised")
              /\ lpc' = "failed"
    /\ UNCHANGED <<env, tokenFile, ctx, inv>>

\* The interactive flow with its failure caught and startup going on.
RunInteractiveFlow_caught ==
    /\ lpc = "flow"
    /\ \E ok \in BOOLEAN :
         IF ok
         THEN /\ creds' = FlowCreds
              /\ trail' = Append(trail, "flow")
              /\ lpc' = "save"
         ELSE /\ creds' = creds
              /\ trail' = Append(trail, "flow_raised")
              /\ lpc' = "build"
    /\ UNCHANGED <<env, tokenFile, ctx, inv>>

\* Lines 73-74: the interactive flow; a missing client-secret file or a
\* cancelled authorization raises.
RunInteractiveFlow ==
    /\ lpc = "flow"
    /\ \E ok \in BOOLEAN :
         IF ok
         THEN /\ creds' = FlowCreds
              /\ trail' = Append(trail, "flow")
              /\ lpc' = "save"
         ELSE /\ creds' = creds
              /\ trail' = Append(trail, "flow_raised")
              /\ lpc' = "failed"
    /\ UNCHANGED <<env, tokenFile, ctx, inv>>

\* Lines 76-78: save the credentials for the next run.
SaveToken ==
    /\ lpc = "save"
    /\ \E ok \in BOOLEAN :
         IF ok
         THEN /\ tokenFile' = ToJson(creds)
              /\ trail' = Append(trail, "token_write")
              /\ lpc' = "build"
         ELSE /\ tokenFile' = tokenFile
              /\ trail' = Append(trail, "token_write_raised")
              /\ lpc' = "failed"
    /\ UNCHANGED <<env, creds, ctx, inv>>

\* Lines 80-90: build the two services and yield the context.
BuildServices ==
    /\ lpc = "build"
    /\ \E ok \in BOOLEAN :
         IF ok
         THEN /\ ctx' = SpreadsheetContext(creds, DRIVE_FOLDER_ID)
              /\ trail' = Append(trail, "build")
              /\ lpc' = "serving"
         ELSE /\ ctx' = ctx
              /\ trail' = Append(trail, "build_raised")
              /\ lpc' = "failed"
    /\ UNCHANGED <<env, tokenFile, creds, inv>>

Startup ==
    \/ LoadServiceAccount
    \/ ReadTokenCache
    \/ RefreshToken
    \/ RunInteractiveFlow
    \/ SaveToken
    \/ BuildServices

(* ---------------------------------------------------------------------- *)
(* The remote services                                                     *)
(* ---------------------------------------------------------------------- *)

\* A remote call that raised (permission denied, quota, bad request ...).
Fault == [ok |-> FALSE]
Answer(body) == [ok |-> TRUE, body |-> body]

\* One sheet descriptor of the spreadsheet metadata.
Sheet(title, id) == [properties |-> [title |-> title, sheetId |-> id]]

\* Sheet lists spreadsheets().get may answer with.  The first sheet of a
\* Google spreadsheet has sheetId 0.
SheetLists ==
    { <<Sheet("Data", 0)>>,
      <<Sheet("Tmp", 0)>>,
      <<Sheet("Tmp", 0), Sheet("Data", 5)>>,
      <<Sheet("Data", 0), Sheet("Tmp", 5)>> }

Metadatas == {Fault} \cup {Answer([properties |-> [title |-> "Budget"], sheets |-> l]) : l \in SheetLists}

\* An answer the handlers hand back unread.
Summary == Answer([spreadsheetId |-> "abc123"])
Summaries == {Fault, Summary}

\* The requests the handlers issue.
SpreadsheetsGet(service, id) ==
    [service |-> service.api, method |-> "spreadsheets.get", spreadsheetId |-> id]

ValuesGet(service, id, range) ==
    [service |-> service.api, method |-> "spreadsheets.values.get",
     spreadsheetId |-> id, range |-> range]

ValuesUpdate(service, id, range, body) ==
    [service |-> service.api, method |-> "spreadsheets.values.update",
     spreadsheetId |-> id, range |-> range, valueInputOption |-> "USER_ENTERED",
     body |-> body]

ValuesBatchUpdate(service, id, body) ==
    [service |-> service.api, method |-> "spreadsheets.values.batchUpdate",
     spreadsheetId |-> id, body |-> body]

BatchUpdate(service, id, body) ==
    [service |-> service.api, method |-> "spreadsheets.batchUpdate",
     spreadsheetId |-> id, body |-> body]

CopyTo(service, id, sheetId, body) ==
    [service |-> service.api, method |-> "spreadsheets.sheets.copyTo",
     spreadsheetId |-> id, sheetId |-> sheetId, body |-> body]

SpreadsheetsCreate(service, body) ==
    [service |-> service.api, method |-> "spreadsheets.create", body |-> body,
     fields |-> "spreadsheetId,properties,sheets"]

FilesGet(service, fileId) ==
    [service |-> service.api, method |-> "files.get", fileId |-> fileId,
     fields |-> "parents"]

FilesUpdate(service, fileId, addParents, removeParents) ==
    [service |-> service.api, method |-> "files.update", fileId |-> fileId,
     addParents |-> addParents, removeParents |-> removeParents,
     fields |-> "id, parents"]

FilesList(service, q) ==
    [service |-> service.api, method |-> "files.list", q |-> q, spaces |-> "drive",
     fields |-> "files(id, name)", orderBy |-> "modifiedTime desc"]

\* What insertDimension does to one dimension of the sheet: endIndex -
\* startIndex blank rows (columns) are put before the one at startIndex.
\* A row is its content tag, 0 for a blank one.
InsertDimension(grid, startIndex, endIndex) ==
    SubSeq(grid, 1, startIndex)
      \o [i \in 1 .. (endIndex - startIndex) |-> 0]
      \o SubSeq(grid, startIndex + 1, Len(grid))

(* ---------------------------------------------------------------------- *)
(* Tool handlers                                                           *)
(*                                                                         *)
(* The handlers are synchronous functions: the host runs one to completion *)
(* before it dispatches the next, so an action is one whole invocation,    *)
(* the answers of its remote calls being chosen by the remote service.     *)
(* ---------------------------------------------------------------------- *)

\* The host dispatches a tool call once the lifespan has yielded its
\* context (server.py:97-99) and the handler before it has finished.
CanInvoke == lpc = "serving" /\ ctx.built /\ inv = Idle

\* An invocation ran and left `frame`; a handler only reads the context.
Ran(frame) ==
    /\ inv' = frame
    /\ UNCHANGED <<env, tokenFile, lpc, creds, trail, ctx>>

\* f"{sheet}!{range}" when a range is given, else the sheet name.
FullRange(sheet, range) ==
    IF Truthy(range) THEN sheet \o "!" \o Val(range) ELSE sheet

\* f"{sheet}!{range}" of update_cells and batch_update_cells.
QualifiedRange(sheet, range) == sheet \o "!" \o range

\* get_sheet_data (server.py:103-134)
get_sheet_data_run(c, spreadsheet_id, sheet, range, answer) ==
    LET args == [spreadsheet_id |-> spreadsheet_id, sheet |-> sheet, range |-> range]
        full_range == FullRange(sheet, range)
        calls == <<ValuesGet(c.sheets_service, spreadsheet_id, full_range)>>
    IN IF ~answer.ok
       THEN Faulted("get_sheet_data", args, NoLocals, calls)
       ELSE Returned("get_sheet_data", args, NoLocals, calls,
                     IF "values" \in DOMAIN answer.body THEN answer.body.values ELSE <<>>)

get_sheet_data ==
    /\ CanInvoke
    /\ \E spreadsheet_id \in SpreadsheetIds, sheet \in SheetArgs, range \in RangeArgs :
       \E answer \in {Fault, Answer([range |-> "Data"]),
                             Answer([range |-> "Data", values |-> <<<<"x">>>>])} :
         Ran(get_sheet_data_run(ctx, spreadsheet_id, sheet, range, answer))

\* update_cells (server.py:138-173)
update_cells_run(c, spreadsheet_id, sheet, range, data, answer) ==
    LET args == [spreadsheet_id |-> spreadsheet_id, sheet |-> sheet,
                 range |-> range, data |-> data]
        full_range == QualifiedRange(sheet, range)
        calls == <<ValuesUpdate(c.sheets_service, spreadsheet_id, full_range,
                                [values |-> data])>>
    IN IF ~answer.ok
       THEN Faulted("update_cells", args, NoLocals, calls)
       ELSE Returned("update_cells", args, NoLocals, calls, answer.body)

update_cells ==
    /\ CanInvoke
    /\ \E spreadsheet_id \in SpreadsheetIds, sheet \in SheetArgs, range \in A1Ranges :
       \E answer \in Summaries :
         Ran(update_cells_run(ctx, spreadsheet_id, sheet, range, CellData, answer))

\* batch_update_cells (server.py:177-215); `ranges` is the dict in its
\* iteration order, every range carrying the same values here.
batch_update_cells_run(c, spreadsheet_id, sheet, ranges, answer) ==
    LET args == [spreadsheet_id |-> spreadsheet_id, sheet |-> sheet, ranges |-> ranges]
        data == [i \in 1 .. Len(ranges) |->
                   [range |-> QualifiedRange(sheet, ranges[i]), values |-> CellData]]
        calls == <<ValuesBatchUpdate(c.sheets_service, spreadsheet_id,
                     [valueInputOption |-> "USER_ENTERED", data |-> data])>>
    IN IF ~answer.ok
       THEN Faulted("batch_update_cells", args, NoLocals, calls)
       ELSE Returned("batch_update_cells", args, NoLocals, calls, answer.body)

batch_update_cells ==
    /\ CanInvoke
    /\ \E spreadsheet_id \in SpreadsheetIds, sheet \in SheetArgs, ranges \in RangesArgs :
       \E answer \in Summaries :
         Ran(batch_update_cells_run(ctx, spreadsheet_id, sheet, ranges, answer))

\* The scan with a substring test (`if sheet in title`) in place of the
\* equality: the empty name is a substring of every title.
FindSheetId_substring(sheets, name) ==
    LET hits == {i \in 1 .. Len(sheets) :
                   name = "" \/ sheets[i].properties.title = name}
    IN IF hits = {}
       THEN None
       ELSE Some(sheets[CHOOSE i \in hits : \A j \in hits : i <= j].properties.sheetId)

\* The scan that falls back on the first sheet when no title matches.
FindSheetId_firstSheet(sheets, name) ==
    LET hits == {i \in 1 .. Len(sheets) : sheets[i].properties.title = name}
    IN IF hits = {}
       THEN Some(sheets[1].properties.sheetId)
       ELSE Some(sheets[CHOOSE i \in hits : \A j \in hits : i <= j].properties.sheetId)

\* The scan for the sheet id: the first sheet whose title equals `name`,
\* None when there is none.
FindSheetId(sheets, name) ==
    LET hits == {i \in 1 .. Len(sheets) : sheets[i].properties.title = name}
    IN IF hits = {}
       THEN None
       ELSE Some(sheets[CHOOSE i \in hits : \A j \in hits : i <= j].properties.sheetId)

\* `if sheet_id is None:`
SheetMissing(sheet_id) == IsNone(sheet_id)

\* {"error": f"Sheet '{sheet}' not found"}
SheetNotFound(sheet) == [error |-> "Sheet '" \o sheet \o "' not found"]

\* {"error": f"Source sheet '{src_sheet}' not found"}
SourceSheetNotFound(src_sheet) == [error |-> "Source sheet '" \o src_sheet \o "' not found"]

\* "startIndex": start if start is not None else 0
StartIndex(start) == IF ~IsNone(start) THEN Val(start) ELSE 0

\* "endIndex": (start if start is not None else 0) + count
EndIndex(start, count) == (IF ~IsNone(start) THEN Val(start) ELSE 0) + count

\* The truthiness of the start index left out: `start is not None`.
InheritFromBefore_given(start) == ~IsNone(start)

\* "inheritFromBefore": start is not None and start > 0
InheritFromBefore(start) == ~IsNone(start) /\ Val(start) > 0

\* The insertDimension request body of add_rows / add_columns.
InsertRequestBody(sheet_id, dimension, start, count) ==
    [requests |-> <<
       [insertDimension |->
          [range |-> [sheetId |-> sheet_id, dimension |-> dimension,
                      startIndex |-> StartIndex(start),
                      endIndex |-> EndIndex(start, count)],
           inheritFromBefore |-> InheritFromBefore(start)]] >>]

\* add_rows (server.py:219-273)
add_rows_run(c, spreadsheet_id, sheet, count, start_row, spreadsheet, result) ==
    LET args == [spreadsheet_id |-> spreadsheet_id, sheet |-> sheet,
                 count |-> count, start |-> start_row]
        lookup == <<SpreadsheetsGet(c.sheets_service, spreadsheet_id)>>
    IN IF ~spreadsheet.ok
       THEN Faulted("add_rows", args, NoLocals, lookup)
       ELSE LET sheet_id == FindSheetId(spreadsheet.body.sheets, sheet)
                locals == [sheets |-> spreadsheet.body.sheets, sheet_id |-> sheet_id]
            IN IF SheetMissing(sheet_id)
               THEN Returned("add_rows", args, locals, lookup, SheetNotFound(sheet))
               ELSE LET request_body == InsertRequestBody(Val(sheet_id), "ROWS",
                                                          start_row, count)
                        calls == Append(lookup, BatchUpdate(c.sheets_service,
                                                            spreadsheet_id, request_body))
                    IN IF ~result.ok
                       THEN Faulted("add_rows", args, locals, calls)
                       ELSE Returned("add_rows", args, locals, calls, result.body)

add_rows ==
    /\ CanInvoke
    /\ \E spreadsheet_id \in SpreadsheetIds, sheet \in SheetArgs,
          count \in Counts, start_row \in StartArgs :
       \E spreadsheet \in Metadatas, result \in Summaries :
         Ran(add_rows_run(ctx, spreadsheet_id, sheet, count, start_row, spreadsheet, result))

\* add_columns (server.py:277-331)
add_columns_run(c, spreadsheet_id, sheet, count, start_column, spreadsheet, result) ==
    LET args == [spreadsheet_id |-> spreadsheet_id, sheet |-> sheet,
                 count |-> count, start |-> start_column]
        lookup == <<SpreadsheetsGet(c.sheets_service, spreadsheet_id)>>
    IN IF ~spreadsheet.ok
       THEN Faulted("add_columns", args, NoLocals, lookup)
       ELSE LET sheet_id == FindSheetId(spreadsheet.body.sheets, sheet)
                locals == [sheets |-> spreadsheet.body.sheets, sheet_id |-> sheet_id]
            IN IF SheetMissing(sheet_id)
               THEN Returned("add_columns", args, locals, lookup, SheetNotFound(sheet))
               ELSE LET request_body == InsertRequestBody(Val(sheet_id), "COLUMNS",
                                                          start_column, count)
                        calls == Append(lookup, BatchUpdate(c.sheets_service,
                                                            spreadsheet_id, request_body))
                    IN IF ~result.ok
                       THEN Faulted("add_columns", args, locals, calls)
                       ELSE Returned("add_columns", args, locals, calls, result.body)

add_columns ==
    /\ CanInvoke
    /\ \E spreadsheet_id \in SpreadsheetIds, sheet \in SheetArgs,
          count \in Counts, start_column \in StartArgs :
       \E spreadsheet \in Metadatas, result \in Summaries :
         Ran(add_columns_run(ctx, spreadsheet_id, sheet, count, start_column,
                             spreadsheet, result))

\* list_sheets (server.py:335-353)
list_sheets_run(c, spreadsheet_id, spreadsheet) ==
    LET args == [spreadsheet_id |-> spreadsheet_id]
        calls == <<SpreadsheetsGet(c.sheets_service, spreadsheet_id)>>
    IN IF ~spreadsheet.ok
       THEN Faulted("list_sheets", args, NoLocals, calls)
       ELSE Returned("list_sheets", args, NoLocals, calls,
                     [i \in 1 .. Len(spreadsheet.body.sheets) |->
                        spreadsheet.body.sheets[i].properties.title])

list_sheets ==
    /\ CanInvoke
    /\ \E spreadsheet_id \in SpreadsheetIds, spreadsheet \in Metadatas :
         Ran(list_sheets_run(ctx, spreadsheet_id, spreadsheet))

\* The rename issued whenever the copy carries a title.
NeedsRename_always(copy_result, dst_sheet) == "title" \in DOMAIN copy_result

\* `if 'title' in copy_result and copy_result['title'] != dst_sheet:`
NeedsRename(copy_result, dst_sheet) ==
    "title" \in DOMAIN copy_result /\ copy_result.title # dst_sheet

\* The updateSheetProperties request body of copy_sheet and rename_sheet.
RenameRequestBody(sheet_id, title) ==
    [requests |-> <<
       [updateSheetProperties |->
          [properties |-> [sheetId |-> sheet_id, title |-> title],
           fields |-> "title"]] >>]

\* What copyTo may answer: the properties of the copy, whose title the
\* remote service chooses.
CopyAnswers ==
    {Fault, Answer([sheetId |-> 9])}
      \cup {Answer([sheetId |-> 9, title |-> t]) : t \in NewNames}

\* copy_sheet (server.py:357-427)
copy_sheet_run(c, src_spreadsheet, src_sheet, dst_spreadsheet, dst_sheet, src, copy_answer, rename_answer) ==
    LET args == [src_spreadsheet |-> src_spreadsheet, sheet |-> src_sheet,
                 dst_spreadsheet |-> dst_spreadsheet, dst_sheet |-> dst_sheet]
        lookup == <<SpreadsheetsGet(c.sheets_service, src_spreadsheet)>>
    IN IF ~src.ok
       THEN Faulted("copy_sheet", args, NoLocals, lookup)
       ELSE LET src_sheet_id == FindSheetId(src.body.sheets, src_sheet)
                locals == [sheets |-> src.body.sheets, sheet_id |-> src_sheet_id]
            IN IF SheetMissing(src_sheet_id)
               THEN Returned("copy_sheet", args, locals, lookup,
                             SourceSheetNotFound(src_sheet))
               ELSE LET copied == Append(lookup,
                                    CopyTo(c.sheets_service, src_spreadsheet,
                                           Val(src_sheet_id),
                                           [destinationSpreadsheetId |-> dst_spreadsheet]))
                    IN IF ~copy_answer.ok
                       THEN Faulted("copy_sheet", args, locals, copied)
                       ELSE LET copy_result == copy_answer.body
                                locals2 == [sheets |-> src.body.sheets,
                                            sheet_id |-> src_sheet_id,
                                            copy_result |-> copy_result]
                            IN IF NeedsRename(copy_result, dst_sheet)
                               THEN LET renamed == Append(copied,
                                          BatchUpdate(c.sheets_service, dst_spreadsheet,
                                            RenameRequestBody(copy_result.sheetId, dst_sheet)))
                                    IN IF ~rename_answer.ok
                                       THEN Faulted("copy_sheet", args, locals2, renamed)
                                       ELSE Returned("copy_sheet", args, locals2, renamed,
                                                     [copy |-> copy_result,
                                                      rename |-> rename_answer.body])
                               ELSE Returned("copy_sheet", args, locals2, copied,
                                             [copy |-> copy_result])

copy_sheet ==
    /\ CanInvoke
    /\ \E src_spreadsheet \in SpreadsheetIds, src_sheet \in SheetArgs,
          dst_spreadsheet \in SpreadsheetIds, dst_sheet \in NewNames :
       \E src \in Metadatas, copy_answer \in CopyAnswers, rename_answer \in Summaries :
         Ran(copy_sheet_run(ctx, src_spreadsheet, src_sheet, dst_spreadsheet, dst_sheet,
                            src, copy_answer, rename_answer))

\* rename_sheet (server.py:431-481)
rename_sheet_run(c, spreadsheet, sheet, new_name, spreadsheet_data, result) ==
    LET args == [spreadsheet |-> spreadsheet, sheet |-> sheet, new_name |-> new_name]
        lookup == <<SpreadsheetsGet(c.sheets_service, spreadsheet)>>
    IN IF ~spreadsheet_data.ok
       THEN Faulted("rename_sheet", args, NoLocals, lookup)
       ELSE LET sheet_id == FindSheetId(spreadsheet_data.body.sheets, sheet)
                locals == [sheets |-> spreadsheet_data.body.sheets, sheet_id |-> sheet_id]
            IN IF SheetMissing(sheet_id)
               THEN Returned("rename_sheet", args, locals, lookup, SheetNotFound(sheet))
               ELSE LET calls == Append(lookup,
                                   BatchUpdate(c.sheets_service, spreadsheet,
                                               RenameRequestBody(Val(sheet_id), new_name)))
                    IN IF ~result.ok
                       THEN Faulted("rename_sheet", args, locals, calls)
                       ELSE Returned("rename_sheet", args, locals, calls, result.body)

rename_sheet ==
    /\ CanInvoke
    /\ \E spreadsheet \in SpreadsheetIds, sheet \in SheetArgs, new_name \in NewNames :
       \E spreadsheet_data \in Metadatas, result \in Summaries :
         Ran(rename_sheet_run(ctx, spreadsheet, sheet, new_name, spreadsheet_data, result))

\* json.dumps(info, indent=2): the info payload as a JSON text.
JsonDumps(info) == <<"json", info>>

\* get_spreadsheet_info (server.py:485-515), the resource endpoint.
get_spreadsheet_info_run(c, spreadsheet_id, spreadsheet) ==
    LET args == [spreadsheet_id |-> spreadsheet_id]
        calls == <<SpreadsheetsGet(c.sheets_service, spreadsheet_id)>>
    IN IF ~spreadsheet.ok
       THEN Faulted("get_spreadsheet_info", args, NoLocals, calls)
       ELSE LET body == spreadsheet.body
                info == [title |-> IF "properties" \in DOMAIN body
                                   THEN body.properties.title ELSE "Unknown",
                         sheets |-> [i \in 1 .. Len(body.sheets) |->
                                       [title |-> body.sheets[i].properties.title,
                                        sheetId |-> body.sheets[i].properties.sheetId,
                                        gridProperties |-> <<>>]]]
            IN Returned("get_spreadsheet_info", args, NoLocals, calls, JsonDumps(info))

get_spreadsheet_info ==
    /\ CanInvoke
    /\ \E spreadsheet_id \in SpreadsheetIds, spreadsheet \in Metadatas :
         Ran(get_spreadsheet_info_run(ctx, spreadsheet_id, spreadsheet))

\* ",".join(parents)
RECURSIVE Join(_)
Join(parts) ==
    IF parts = <<>> THEN ""
    ELSE IF Len(parts) = 1 THEN parts[1]
    ELSE parts[1] \o "," \o Join(Tail(parts))

\* What spreadsheets().create answers for `title`.
CreateAnswers(title) ==
    {Fault, Answer([spreadsheetId |-> "new1", properties |-> [title |-> title],
                    sheets |-> <<[properties |-> [title |-> "Sheet1"]]>>])}

\* What files().get(fields='parents') answers.
ParentAnswers == {Fault, Answer([parents |-> <<"root">>]), Answer([id |-> "new1"])}

\* The dict create_spreadsheet returns (lines 572-577).
CreateResult(spreadsheet, title, folder_id) ==
    [spreadsheetId |-> spreadsheet.spreadsheetId,
     title |-> IF "properties" \in DOMAIN spreadsheet
               THEN spreadsheet.properties.title ELSE title,
     sheets |-> [i \in 1 .. Len(spreadsheet.sheets) |->
                   spreadsheet.sheets[i].properties.title],
     folder |-> IF Truthy(folder_id) THEN Val(folder_id) ELSE "root"]

\* create_spreadsheet (server.py:519-577).  locals.moved: the move call
\* answered; locals.warned: the except branch of lines 569-570 ran.
create_spreadsheet_run(c, title, created, file, moved) ==
    LET args == [title |-> title]
        folder_id == c.folder_id
        create == <<SpreadsheetsCreate(c.sheets_service, [properties |-> [title |-> title]])>>
    IN IF ~created.ok
       THEN Faulted("create_spreadsheet", args, NoLocals, create)
       ELSE LET spreadsheet == created.body
                spreadsheet_id == spreadsheet.spreadsheetId
                result == CreateResult(spreadsheet, title, folder_id)
            IN IF ~Truthy(folder_id)
               THEN Returned("create_spreadsheet", args,
                             [moved |-> FALSE, warned |-> FALSE], create, result)
               ELSE LET fetched == Append(create, FilesGet(c.drive_service, spreadsheet_id))
                    IN IF ~file.ok
                       THEN Returned("create_spreadsheet", args,
                                     [moved |-> FALSE, warned |-> TRUE], fetched, result)
                       ELSE LET previous_parents ==
                                    Join(IF "parents" \in DOMAIN file.body
                                         THEN file.body.parents ELSE <<>>)
                                calls == Append(fetched,
                                           FilesUpdate(c.drive_service, spreadsheet_id,
                                                       Val(folder_id), previous_parents))
                            IN IF ~moved.ok
                               THEN Returned("create_spreadsheet", args,
                                             [moved |-> FALSE, warned |-> TRUE], calls, result)
                               ELSE Returned("create_spreadsheet", args,
                                             [moved |-> TRUE, warned |-> FALSE], calls, result)

\* create_spreadsheet that forgets the working folder once the move failed.
create_spreadsheet_forgetful ==
    /\ CanInvoke
    /\ \E title \in Titles :
       \E created \in CreateAnswers(title), file \in ParentAnswers, moved \in Summaries :
         LET frame == create_spreadsheet_run(ctx, title, created, file, moved)
         IN /\ inv' = frame
            /\ ctx' = IF frame.pc = "returned" /\ frame.locals.warned
                      THEN [ctx EXCEPT !.folder_id = None]
                      ELSE ctx
            /\ UNCHANGED <<env, tokenFile, lpc, creds, trail>>

\* create_spreadsheet: one invocation.
create_spreadsheet ==
    /\ CanInvoke
    /\ \E title \in Titles :
       \E created \in CreateAnswers(title), file \in ParentAnswers, moved \in Summaries :
         Ran(create_spreadsheet_run(ctx, title, created, file, moved))

\* What the addSheet batchUpdate answers.
AddSheetAnswers(title) ==
    {Fault,
     Answer([replies |-> <<[addSheet |-> [properties |->
               [sheetId |-> 9, title |-> title, index |-> 1]]]>>]),
     Answer([replies |-> <<[addSheet |-> [properties |->
               [sheetId |-> 9, title |-> title]]]>>])}

\* create_sheet (server.py:581-623)
create_sheet_run(c, spreadsheet_id, title, answer) ==
    LET args == [spreadsheet_id |-> spreadsheet_id, title |-> title]
        request_body == [requests |-> <<[addSheet |-> [properties |-> [title |-> title]]]>>]
        calls == <<BatchUpdate(c.sheets_service, spreadsheet_id, request_body)>>
    IN IF ~answer.ok
       THEN Faulted("create_sheet", args, NoLocals, calls)
       ELSE LET new_sheet_props == answer.body.replies[1].addSheet.properties
            IN Returned("create_sheet", args, NoLocals, calls,
                        [sheetId |-> new_sheet_props.sheetId,
                         title |-> new_sheet_props.title,
                         index |-> IF "index" \in DOMAIN new_sheet_props
                                   THEN Some(new_sheet_props.index) ELSE None,
                         spreadsheetId |-> spreadsheet_id])

create_sheet ==
    /\ CanInvoke
    /\ \E spreadsheet_id \in SpreadsheetIds, title \in NewNames :
       \E answer \in AddSheetAnswers(title) :
         Ran(create_sheet_run(ctx, spreadsheet_id, title, answer))

\* The Drive query of list_spreadsheets (lines 638-645).
ListQuery(folder_id) ==
    IF Truthy(folder_id)
    THEN "mimeType='application/vnd.google-apps.spreadsheet'"
           \o " and '" \o Val(folder_id) \o "' in parents"
    ELSE "mimeType='application/vnd.google-apps.spreadsheet'"

\* What files().list answers.
ListAnswers ==
    {Fault, Answer([kind |-> "drive#fileList"]),
     Answer([files |-> <<[id |-> "abc123", name |-> "Budget"]>>])}

\* list_spreadsheets (server.py:627-657)
list_spreadsheets_run(c, results) ==
    LET args == [none |-> TRUE]
        calls == <<FilesList(c.drive_service, ListQuery(c.folder_id))>>
    IN IF ~results.ok
       THEN Faulted("list_spreadsheets", args, NoLocals, calls)
       ELSE LET spreadsheets == IF "files" \in DOMAIN results.body
                                THEN results.body.files ELSE <<>>
            IN Returned("list_spreadsheets", args, NoLocals, calls,
                        [i \in 1 .. Len(spreadsheets) |->
                           [id |-> spreadsheets[i].id, title |-> spreadsheets[i].name]])

list_spreadsheets ==
    /\ CanInvoke
    /\ \E results \in ListAnswers :
         Ran(list_spreadsheets_run(ctx, results))

\* The host hands the outcome of the invocation to the caller: the value
\* returned, or the failure the fault is turned into.
Deliver ==
    /\ inv.pc \in {"returned", "faulted"}
    /\ Ran(Idle)

Tools ==
    \/ Deliver
    \/ get_sheet_data
    \/ update_cells
    \/ batch_update_cells
    \/ add_rows
    \/ add_columns
    \/ list_sheets
    \/ copy_sheet
    \/ rename_sheet
    \/ get_spreadsheet_info
    \/ create_spreadsheet
    \/ create_sheet
    \/ list_spreadsheets

Next == Startup \/ Tools

Spec == Init /\ [][Next]_vars

(* ---------------------------------------------------------------------- *)
(* Properties                                                              *)
(* ---------------------------------------------------------------------- *)

LookupTools == {"add_rows", "add_columns", "copy_sheet", "rename_sheet"}

\* The invocation in `inv` fetched the metadata and no sheet of it has the
\* requested title.
LookupFoundNothing ==
    /\ inv.pc # "idle"
    /\ inv.tool \in LookupTools
    /\ "sheets" \in DOMAIN inv.locals
    /\ \A i \in 1 .. Len(inv.locals.sheets) :
          inv.locals.sheets[i].properties.title # inv.args.sheet

\* C1 as claimed: every lookup tool whose lookup finds no sheet of the
\* requested title returns normally, and what it returns is exactly
\* {"error": "Sheet '<name>' not found"}.
C1_NotFoundIsSheetError ==
    LookupFoundNothing =>
        /\ inv.pc = "returned"
        /\ inv.result = Some([error |-> "Sheet '" \o inv.args.sheet \o "' not found"])

\* C1 amended: the lookup that finds nothing returns normally; add_rows,
\* add_columns and rename_sheet return {"error": "Sheet '<name>' not
\* found"}, copy_sheet returns {"error": "Source sheet '<name>' not found"}.
C1_NotFoundIsStructuredError ==
    LookupFoundNothing =>
        /\ inv.pc = "returned"
        /\ inv.result =
             Some([error |-> (IF inv.tool = "copy_sheet" THEN "Source sheet '" ELSE "Sheet '")
                               \o inv.args.sheet \o "' not found"])

\* rename_sheet asked for "Data" in a spreadsheet that has only "Tmp".
C1_Witness ==
    /\ LookupFoundNothing
    /\ inv.tool = "rename_sheet"
    /\ inv.args.sheet = "Data"
    /\ inv.pc = "returned"
    /\ "error" \in DOMAIN Val(inv.result)

\* The copy_sheet invocation in `inv` found its source sheet and the copy
\* call answered with a titled copy.
CopyAnswered ==
    /\ inv.pc # "idle"
    /\ inv.tool = "copy_sheet"
    /\ "copy_result" \in DOMAIN inv.locals
    /\ "title" \in DOMAIN inv.locals.copy_result

\* C2 as claimed: copy_sheet issues exactly one remote call when the title
\* of the copy equals the destination name, exactly two when it differs.
C2_OneOrTwoCalls ==
    CopyAnswered =>
        Len(inv.calls) = (IF inv.locals.copy_result.title = inv.args.dst_sheet THEN 1 ELSE 2)

\* C2 amended: the metadata fetch counts too.  copy_sheet issues exactly two
\* remote calls (metadata fetch, copy) when the title of the copy equals the
\* destination name, and exactly three (fetch, copy, rename) when it differs;
\* the last call is the rename exactly in the second case.
C2_TwoOrThreeCalls ==
    CopyAnswered =>
        /\ Len(inv.calls) = (IF inv.locals.copy_result.title = inv.args.dst_sheet THEN 2 ELSE 3)
        /\ inv.calls[1].method = "spreadsheets.get"
        /\ inv.calls[2].method = "spreadsheets.sheets.copyTo"
        /\ Len(inv.calls) = 3 =>
              /\ inv.calls[3].method = "spreadsheets.batchUpdate"
              /\ inv.calls[3].body.requests[1].updateSheetProperties.properties.title
                   = inv.args.dst_sheet

\* A copy whose title already is the destination name, returned after two calls.
C2_Witness ==
    /\ CopyAnswered
    /\ inv.pc = "returned"
    /\ inv.locals.copy_result.title = inv.args.dst_sheet
    /\ Len(inv.calls) = 2

\* The create_spreadsheet invocation in `inv` ran with a working folder
\* configured, its create call answered and its folder move failed.
MoveFailed ==
    /\ inv.pc # "idle"
    /\ inv.tool = "create_spreadsheet"
    /\ Truthy(ctx.folder_id)
    /\ Len(inv.calls) >= 2
    /\ inv.locals.warned

\* C3: when the folder move fails after a successful create, no fault leaves
\* the tool, the result carries the spreadsheetId of the new spreadsheet, and
\* the result does not say that the spreadsheet is in the configured folder.
C3_MoveFailureNotConfirmed ==
    MoveFailed =>
        /\ inv.pc = "returned"
        /\ Val(inv.result).spreadsheetId = "new1"
        /\ Val(inv.result).folder # Val(ctx.folder_id)

\* The steps spreadsheet_lifespan has executed.
Steps == {trail[i] : i \in 1 .. Len(trail)}

\* The steps of the OAuth path: entering it, reading the token cache,
\* refreshing, the interactive flow, writing the token cache.
OAuthSteps ==
    {"oauth", "token_read", "token_read_raised", "refresh", "refresh_raised",
     "flow", "flow_raised", "token_write", "token_write_raised"}

\* The position of `step` in the trail, 0 when it did not happen.
StepIndex(step) ==
    IF step \in Steps THEN CHOOSE i \in 1 .. Len(trail) : trail[i] = step ELSE 0

\* C4: the OAuth path is entered if and only if the service-account load
\* produced no credential.  After a successful load no OAuth step happens and
\* the token file is not written; after a load that was skipped or raised the
\* OAuth path is what follows, and the raised load alone never fails startup.
C4_OAuthIffNoServiceAccount ==
    Len(trail) >= 1 =>
        /\ trail[1] \in {"sa_loaded", "sa_load_raised", "sa_skipped"}
        /\ trail[1] = "sa_loaded" =>
              /\ Steps \cap OAuthSteps = {}
              /\ lpc # "oauth_read"
              /\ creds.kind = "service_account"
        /\ trail[1] # "sa_loaded" =>
              /\ lpc = "oauth_read" \/ "oauth" \in Steps
              /\ Len(trail) = 1 => lpc # "failed"

\* A load that raised, followed by the interactive flow and a served session.
C4_Witness ==
    /\ lpc = "serving"
    /\ trail[1] = "sa_load_raised"
    /\ "flow" \in Steps
    /\ "token_write" \in Steps

\* C5 as claimed: whenever the OAuth path ends with a credential, loaded,
\* refreshed or new, the token was written to the token cache before the
\* session context is built.
C5_AlwaysPersisted ==
    (lpc = "serving" /\ "oauth" \in Steps) =>
        /\ "token_write" \in Steps
        /\ tokenFile = [kind |-> "file", token |-> creds]

\* C5 amended: when the OAuth path ends with a credential that was refreshed
\* or obtained by the interactive flow, that credential is written to the
\* token cache before the session context is built; a valid token loaded from
\* the cache is used as it is and the cache file is not written.
C5_PersistedWhenRenewed ==
    (lpc = "serving" /\ "oauth" \in Steps) =>
        /\ ("refresh" \in Steps \/ "flow" \in Steps) <=> "token_write" \in Steps
        /\ "token_write" \in Steps =>
              /\ tokenFile = [kind |-> "file", token |-> creds]
              /\ StepIndex("token_write") < StepIndex("build")
        /\ "token_write" \notin Steps =>
              /\ "token_read" \in Steps
              /\ creds.valid
              /\ tokenFile = [kind |-> "file", token |-> creds]

\* A refreshed token, saved, and the session served.
C5_Witness ==
    /\ lpc = "serving"
    /\ "refresh" \in Steps
    /\ "token_write" \in Steps
    /\ tokenFile = [kind |-> "file", token |-> creds]

\* The steps at which the OAuth path or the construction raises.
FatalSteps ==
    {"token_read_raised", "refresh_raised", "flow_raised", "token_write_raised",
     "build_raised"}

\* C6: a context exists and a tool runs only after credential resolution
\* ended with a credential, which is the one the two client handles carry;
\* once a step of the OAuth path has raised, startup has failed, no context
\* exists and no tool invocation runs.
C6_NoServiceWithoutCredential ==
    /\ ctx.built =>
          /\ lpc = "serving"
          /\ creds # NoCreds
          /\ ctx.sheets_service.credentials = creds
          /\ ctx.drive_service.credentials = creds
    /\ inv # Idle => ctx.built
    /\ Steps \cap FatalSteps # {} =>
          /\ lpc = "failed"
          /\ ~ctx.built
          /\ inv = Idle
    /\ lpc = "failed" => Steps \cap FatalSteps # {}

\* The interactive flow failed with no cached token: startup has failed.
C6_Witness ==
    /\ lpc = "failed"
    /\ "flow_raised" \in Steps
    /\ creds = NoCreds
    /\ ~ctx.built
    /\ inv = Idle

InsertTools == {"add_rows", "add_columns"}

\* The invocation in `inv` is an add_rows / add_columns that found its sheet
\* and issued its insert request.
InsertIssued ==
    /\ inv.pc # "idle"
    /\ inv.tool \in InsertTools
    /\ Len(inv.calls) = 2

\* The insertDimension request of the invocation in `inv`.
InsertRequest == inv.calls[2].body.requests[1].insertDimension

Grids == {[i \in 1 .. n |-> i] : n \in 1 .. MaxGrid}

\* C8: with the start index omitted the new rows (columns) are added at the
\* end: every row the sheet had keeps its index and the `count` new ones
\* come after all of them.
C8_OmittedStartAppends ==
    (InsertIssued /\ inv.pc = "returned" /\ inv.args.start = None) =>
        \A grid \in Grids :
            LET after == InsertDimension(grid, InsertRequest.range.startIndex,
                                         InsertRequest.range.endIndex)
            IN /\ Len(after) = Len(grid) + inv.args.count
               /\ \A i \in 1 .. Len(grid) : after[i] = grid[i]
               /\ \A i \in Len(grid) + 1 .. Len(after) : after[i] = 0

RangeTools == {"get_sheet_data", "update_cells", "batch_update_cells"}

\* The range strings a remote call carries.
RangesOf(call) ==
    IF call.method = "spreadsheets.values.batchUpdate"
    THEN {call.body.data[i].range : i \in 1 .. Len(call.body.data)}
    ELSE IF "range" \in DOMAIN call THEN {call.range} ELSE {}

\* The sheet-name part of a range string: the text before the "!", the
\* whole string when there is none.
SheetNamePart(r) ==
    CHOOSE s \in SheetArgs :
        r = s \/ \E a \in A1Ranges \cup {""} : r = s \o "!" \o a

\* C9: no remote call of get_sheet_data, update_cells or batch_update_cells
\* carries a range string whose sheet-name part is empty.
C9_NoEmptySheetName ==
    (inv.pc # "idle" /\ inv.tool \in RangeTools) =>
        \A i \in 1 .. Len(inv.calls) :
            \A r \in RangesOf(inv.calls[i]) : SheetNamePart(r) # ""

WritingMethods ==
    {"spreadsheets.batchUpdate", "spreadsheets.sheets.copyTo",
     "spreadsheets.values.update", "spreadsheets.values.batchUpdate",
     "spreadsheets.create", "files.update"}

\* C11: a lookup tool whose lookup finds no sheet of the requested title
\* issues the metadata fetch and nothing else: no structural update, no copy,
\* no call that changes the remote spreadsheet.
C11_NotFoundIssuesOnlyTheFetch ==
    LookupFoundNothing =>
        /\ Len(inv.calls) = 1
        /\ inv.calls[1].method = "spreadsheets.get"
        /\ \A i \in 1 .. Len(inv.calls) : inv.calls[i].method \notin WritingMethods

\* add_rows asked for "Data" in a spreadsheet that has only "Tmp": it
\* returned after the fetch alone.
C11_Witness ==
    /\ LookupFoundNothing
    /\ inv.tool = "add_rows"
    /\ inv.args.sheet = "Data"
    /\ inv.pc = "returned"
    /\ Len(inv.calls) = 1

\* The trail entries a refresh attempt and a run of the interactive flow leave.
RefreshSteps == {"refresh", "refresh_raised"}
FlowSteps == {"flow", "flow_raised"}

\* How often a step of `kinds` is in the trail.
Occurrences(kinds) == Cardinality({i \in 1 .. Len(trail) : trail[i] \in kinds})

\* What the claim says follows the look at the token cache holding `file`:
\* nothing for a valid token, the refresh for an invalid, expired token with
\* a refresh token, the interactive flow otherwise.
ClaimedAfterCache(file) ==
    IF file = NoFile THEN "flow"
    ELSE IF file.token.valid THEN "build"
    ELSE IF file.token.expired /\ file.token.refresh_token THEN "refresh"
    ELSE "flow"

\* C12: on the OAuth path at most one of refresh and interactive flow runs,
\* each at most once, and the cached token decides which: a readable cache
\* sends the lifespan where ClaimedAfterCache says; the refresh runs exactly
\* from the position "refresh" and the flow exactly from the position "flow".
C12_RefreshOrFlowByCachedToken ==
    /\ [](/\ Occurrences(RefreshSteps) + Occurrences(FlowSteps) <= 1
          /\ Steps \cap (RefreshSteps \cup FlowSteps) # {} => "oauth" \in Steps)
    /\ [][(lpc = "oauth_read" /\ lpc' # lpc /\ tokenFile # Garbage)
             => lpc' = ClaimedAfterCache(tokenFile)]_vars
    /\ [][(lpc = "refresh" /\ lpc' # lpc)
             => (Occurrences(RefreshSteps)' = 1 /\ Occurrences(FlowSteps)' = 0)]_vars
    /\ [][(lpc = "flow" /\ lpc' # lpc)
             => (Occurrences(FlowSteps)' = 1 /\ Occurrences(RefreshSteps)' = 0)]_vars
    /\ [][(lpc \notin {"refresh", "flow"})
             => /\ Occurrences(RefreshSteps)' = Occurrences(RefreshSteps)
                /\ Occurrences(FlowSteps)' = Occurrences(FlowSteps)]_vars

\* A cached token that is invalid but cannot be refreshed was read, and the
\* interactive flow ran in place of a refresh.
C12_Witness ==
    /\ lpc = "save"
    /\ "token_read" \in Steps
    /\ "flow" \in Steps
    /\ Steps \cap RefreshSteps = {}
    /\ tokenFile \notin {NoFile, Garbage}
    /\ ~tokenFile.token.valid

====
